-------------------------------- MODULE Spec2Model --------------------------------
(***************************************************************************)
(* A model of the Alba -> NW Publisher record transformation:              *)
(*   utils.py    column resolution, address splitting, phone formatting,   *)
(*               title casing (pure functions, modelled as operators)      *)
(*   convert.py  transform_to_nwp (validate, map, sort, deduplicate,       *)
(*               finalize) and process_upload (sheet selection and the     *)
(*               loop over the selected sheets)                            *)
(*                                                                         *)
(* Python strings are sequences of one-character strings, so that strip,   *)
(* split, lower, the regular expressions and the code-point order of       *)
(* sorting are computed as the code computes them.  Cell values are        *)
(* records [t, s]: t = "str" with text s; t = "int" and t = "float" a whole *)
(* number with decimal digits s, as an int and as a float; t = "none"      *)
(* Python's None; t = "nan" the float NaN of an empty cell.                *)
(***************************************************************************)
EXTENDS Integers, Sequences, FiniteSets, TLC

VARIABLES
    df,          \* transform_to_nwp: the source table [columns, rows]
    pc,          \* transform_to_nwp: the stage reached
    missing,     \* transform_to_nwp: the list of missing required columns
    out,         \* transform_to_nwp: the target table [columns, index, rows]
    error,       \* transform_to_nwp: the ValueError raised, or "none"
    workbook,    \* process_upload: sheets read from the file, <<[name, table]>>
    sheet_name,  \* process_upload: the sheet_name argument, a string or None
    upc,         \* process_upload: position in process_upload
    selected,    \* process_upload: the sheets left to transform
    transformed, \* process_upload: the dict of transformed sheets, in order
    result,      \* process_upload: the returned dict, or NoResult
    addr_in,     \* _parse_address_field called alone: the address given
    parsed,      \* _parse_address_field called alone: the pair returned, or NoResult
    phone_in,    \* _format_phone_to_north_american called alone: the argument
    formatted,   \* its result, or NoResult
    reformatted, \* the result of the function applied to its result, or NoResult
    title_in,    \* _title_case_safe called alone: the argument
    titled,      \* its result, or NoResult
    retitled,    \* the result of the function applied to its result, or NoResult
    lookup_columns, \* _get_col called alone: the columns of the table
    lookup_name, \* the logical name looked up
    lookup_other, \* a second logical name looked up in the same table
    found,       \* the column returned (None when not found), or NoResult
    found_other  \* the column returned for the second name, or NoResult

vars == <<df, pc, missing, out, error, workbook, sheet_name, upc, selected,
          transformed, result, addr_in, parsed, phone_in, formatted, reformatted,
          title_in, titled, retitled, lookup_columns, lookup_name, lookup_other,
          found, found_other>>

-----------------------------------------------------------------------------
(* Characters and strings *)

\* The printable ASCII characters in code-point order: 32 (space) to 95 (_), and
\* 97 (a) to 126 (~).
AsciiFrom32 ==
    <<" ", "!", "\"", "#", "$", "%", "&", "'", "(", ")", "*", "+",
      ",", "-", ".", "/", "0", "1", "2", "3", "4", "5", "6", "7",
      "8", "9", ":", ";", "<", "=", ">", "?", "@", "A", "B", "C",
      "D", "E", "F", "G", "H", "I", "J", "K", "L", "M", "N", "O",
      "P", "Q", "R", "S", "T", "U", "V", "W", "X", "Y", "Z", "[",
      "\\", "]", "^", "_">>
AsciiFrom97 ==
    <<"a", "b", "c", "d", "e", "f", "g", "h", "i", "j", "k", "l",
      "m", "n", "o", "p", "q", "r", "s", "t", "u", "v", "w", "x",
      "y", "z", "{", "|", "}", "~">>

UpperLetters == <<"A","B","C","D","E","F","G","H","I","J","K","L","M",
                  "N","O","P","Q","R","S","T","U","V","W","X","Y","Z">>
LowerLetters == <<"a","b","c","d","e","f","g","h","i","j","k","l","m",
                  "n","o","p","q","r","s","t","u","v","w","x","y","z">>

Range(f) == {f[i] : i \in DOMAIN f}

Digits == {"0","1","2","3","4","5","6","7","8","9"}
Upper == Range(UpperLetters)
Lower == Range(LowerLetters)
\* A lowercase letter whose uppercase is written with two letters.
SharpS == "ß"
\* \s of the re module and the characters str.strip() removes.
Whitespace == {" ", "\t", "\n"}

\* ord(c): the code point of a character.
Ord(c) ==
    IF c = "\t" THEN 9
    ELSE IF c = SharpS THEN 223
    ELSE IF c = "\n" THEN 10
    ELSE IF \E i \in DOMAIN AsciiFrom32 : AsciiFrom32[i] = c
         THEN 31 + (CHOOSE i \in DOMAIN AsciiFrom32 : AsciiFrom32[i] = c)
    ELSE 96 + (CHOOSE i \in DOMAIN AsciiFrom97 : AsciiFrom97[i] = c)

\* F applied to the value of v: v is evaluated once, before F uses it.
Let(v, F(_)) == CHOOSE r \in {F(x) : x \in {v}} : TRUE

\* c.lower() and c.upper() of one character.
LowerChar(c) ==
    IF c \in Upper THEN LowerLetters[CHOOSE i \in 1..26 : UpperLetters[i] = c] ELSE c
UpperChar(c) ==
    IF c \in Lower THEN UpperLetters[CHOOSE i \in 1..26 : LowerLetters[i] = c] ELSE c

\* c.upper() as a string: the uppercase of one character can be two characters.
UpperOf(c) == IF c = SharpS THEN <<"S", "S">> ELSE <<UpperChar(c)>>

\* s.lower() and s.upper().
StrLower(s) == Let(s, LAMBDA v : [i \in DOMAIN v |-> LowerChar(v[i])])
RECURSIVE StrUpperFrom(_, _)
StrUpperFrom(s, i) ==
    IF i > Len(s) THEN <<>> ELSE UpperOf(s[i]) \o StrUpperFrom(s, i + 1)
StrUpper(s) == Let(s, LAMBDA v : StrUpperFrom(v, 1))

\* s.isupper(): at least one cased character and no lowercase one.
IsUpper(s) ==
    Let(s, LAMBDA v : /\ \E i \in DOMAIN v : v[i] \in Upper
                      /\ \A i \in DOMAIN v : v[i] \notin Lower \cup {SharpS})

\* s.isspace(): non-empty and all whitespace.
IsSpace(s) == Let(s, LAMBDA v : v /= <<>> /\ \A i \in DOMAIN v : v[i] \in Whitespace)

\* The first position from i on of s that holds no character of C (Len(s) + 1 if
\* none), and the last position up to i that holds none (0 if none).
SkipForward(s, C, i) ==
    Let({j \in i..Len(s) : s[j] \notin C},
        LAMBDA stops : IF stops = {} THEN (IF i <= Len(s) THEN Len(s) + 1 ELSE i)
                       ELSE CHOOSE j \in stops : \A k \in stops : j <= k)
RECURSIVE SkipBackward(_, _, _)
SkipBackward(s, C, i) ==
    IF i >= 1 /\ s[i] \in C THEN SkipBackward(s, C, i - 1) ELSE i

\* s.lstrip(), s.rstrip(), s.strip(): whitespace removed at the ends.
LStrip(s) == Let(s, LAMBDA v : SubSeq(v, SkipForward(v, Whitespace, 1), Len(v)))
RStrip(s) == Let(s, LAMBDA v : SubSeq(v, 1, SkipBackward(v, Whitespace, Len(v))))
Strip(s) == RStrip(LStrip(s))

\* s.rstrip('.'): trailing periods removed.
RStripDots(s) == Let(s, LAMBDA v : SubSeq(v, 1, SkipBackward(v, {"."}, Len(v))))

\* The characters of s that are in (not in) a set, order kept.
Keep(s, C) == SelectSeq(s, LAMBDA c : c \in C)
Remove(s, C) == SelectSeq(s, LAMBDA c : c \notin C)

\* Python's a < b on strings: lexicographic on code points.
RECURSIVE StrLessFrom(_, _, _)
StrLessFrom(a, b, i) ==
    IF i > Len(b) THEN FALSE
    ELSE IF i > Len(a) THEN TRUE
    ELSE IF a[i] = b[i] THEN StrLessFrom(a, b, i + 1)
    ELSE Ord(a[i]) < Ord(b[i])
StrLess(a, b) == Let(<<a, b>>, LAMBDA p : StrLessFrom(p[1], p[2], 1))

\* ''.join(parts)
RECURSIVE JoinFrom(_, _)
JoinFrom(parts, i) ==
    IF i > Len(parts) THEN <<>> ELSE parts[i] \o JoinFrom(parts, i + 1)
Join(parts) == Let(parts, LAMBDA v : JoinFrom(v, 1))

-----------------------------------------------------------------------------
(* Cell values *)

None == [t |-> "none", s |-> <<>>]
NaN == [t |-> "nan", s |-> <<>>]
StrV(s) == [t |-> "str", s |-> s]
IntV(s) == [t |-> "int", s |-> s]
FloatV(s) == [t |-> "float", s |-> s]

\* pd.isna(v) / Series.notna()
IsNA(v) == v.t \in {"none", "nan"}

\* str(v) of a value, also what Series.astype(str) gives per cell.
PyStr(v) ==
    Let(v, LAMBDA x : CASE x.t = "none" -> <<"N","o","n","e">>
                        [] x.t = "nan" -> <<"n","a","n">>
                        [] x.t = "float" -> x.s \o <<".", "0">>
                        [] OTHER -> x.s)

-----------------------------------------------------------------------------
(* utils.py *)

\* _norm_col_name(s): str(s).strip(), whitespace and underscores removed, lowercased.
_norm_col_name(s) == StrLower(Remove(Strip(PyStr(s)), Whitespace \cup {"_"}))

\* The position of the last of the first i columns whose normalised name is k.
RECURSIVE LastColumnNamed(_, _, _)
LastColumnNamed(norms, k, i) ==
    IF norms[i] = k THEN i ELSE LastColumnNamed(norms, k, i - 1)

\* _build_col_map(df): the dict {normalised name: column}; in the dict comprehension a
\* later column with the same normalised name overwrites an earlier one.
_build_col_map(t) ==
    Let([i \in DOMAIN t.columns |-> _norm_col_name(t.columns[i])],
        LAMBDA norms : [k \in Range(norms) |->
                           t.columns[LastColumnNamed(norms, k, Len(norms))]])

\* cmap.get(key): None when the key is absent.
DictGet(cmap, key) == IF key \in DOMAIN cmap THEN cmap[key] ELSE None

\* _get_col(df, name)
_get_col(t, name) ==
    Let(<<_build_col_map(t), _norm_col_name(name)>>, LAMBDA p : DictGet(p[1], p[2]))

\* The length of the longest prefix of s made of characters of C.
PrefixLen(s, C) == Let(s, LAMBDA v : SkipForward(v, C, 1) - 1)

\* s[n:]
Drop(s, n) == Let(s, LAMBDA v : SubSeq(v, n + 1, Len(v)))

\* The decimal digits of int(n) for a numeral n of decimal digits: leading zeros
\* dropped.
IntStr(n) ==
    Let(n, LAMBDA v : IF SkipForward(v, {"0"}, 1) > Len(v) THEN SubSeq(v, Len(v), Len(v))
                      ELSE SubSeq(v, SkipForward(v, {"0"}, 1), Len(v)))

\* A float (IEEE double) holds every whole number of at most 15 decimal digits.
ExactFloatDigits == 15

\* The least whole number that float() turns into inf: 2^1024 - 2^970, of 309 digits.
FloatOverflowThreshold ==
    <<"1", "7", "9", "7", "6", "9", "3", "1", "3", "4", "8", "6", "2", "3", "1", "5", "8", "0", "7", "9",
      "3", "7", "2", "8", "9", "7", "1", "4", "0", "5", "3", "0", "3", "4", "1", "5", "0", "7", "9", "9",
      "3", "4", "1", "3", "2", "7", "1", "0", "0", "3", "7", "8", "2", "6", "9", "3", "6", "1", "7", "3",
      "7", "7", "8", "9", "8", "0", "4", "4", "4", "9", "6", "8", "2", "9", "2", "7", "6", "4", "7", "5",
      "0", "9", "4", "6", "6", "4", "9", "0", "1", "7", "9", "7", "7", "5", "8", "7", "2", "0", "7", "0",
      "9", "6", "3", "3", "0", "2", "8", "6", "4", "1", "6", "6", "9", "2", "8", "8", "7", "9", "1", "0",
      "9", "4", "6", "5", "5", "5", "5", "4", "7", "8", "5", "1", "9", "4", "0", "4", "0", "2", "6", "3",
      "0", "6", "5", "7", "4", "8", "8", "6", "7", "1", "5", "0", "5", "8", "2", "0", "6", "8", "1", "9",
      "0", "8", "9", "0", "2", "0", "0", "0", "7", "0", "8", "3", "8", "3", "6", "7", "6", "2", "7", "3",
      "8", "5", "4", "8", "4", "5", "8", "1", "7", "7", "1", "1", "5", "3", "1", "7", "6", "4", "4", "7",
      "5", "7", "3", "0", "2", "7", "0", "0", "6", "9", "8", "5", "5", "5", "7", "1", "3", "6", "6", "9",
      "5", "9", "6", "2", "2", "8", "4", "2", "9", "1", "4", "8", "1", "9", "8", "6", "0", "8", "3", "4",
      "9", "3", "6", "4", "7", "5", "2", "9", "2", "7", "1", "9", "0", "7", "4", "1", "6", "8", "4", "4",
      "4", "3", "6", "5", "5", "1", "0", "7", "0", "4", "3", "4", "2", "7", "1", "1", "5", "5", "9", "6",
      "9", "9", "5", "0", "8", "0", "9", "3", "0", "4", "2", "8", "8", "0", "1", "7", "7", "9", "0", "4",
      "1", "7", "4", "4", "9", "7", "7", "9", "2">>

\* float(n) is inf for the numeral n without leading zeros.
FloatIsInf(n) ==
    \/ Len(n) > Len(FloatOverflowThreshold)
    \/ Len(n) = Len(FloatOverflowThreshold) /\ ~StrLess(n, FloatOverflowThreshold)

\* The exception int(float('inf')) raises, as a value.
OverflowError == [t |-> "raise", s |-> <<"O", "v", "e", "r", "f", "l", "o", "w">>]

\* A string of decimal digits known only as the digits of the float nearest to n.
NearestFloatStr(n) == [t |-> "str", s |-> n, nearest |-> "float"]

\* str(int(float(number))) for a numeral of decimal digits: the numeral without
\* leading zeros while a float holds it, the digits of the nearest float beyond
\* that, OverflowError when the float is inf.
IntOfFloatStr(number) ==
    Let(IntStr(number),
        LAMBDA n : IF Len(n) <= ExactFloatDigits THEN StrV(n)
                   ELSE IF FloatIsInf(n) THEN OverflowError
                   ELSE NearestFloatStr(n))

\* re.match(r'^\d+\.0$', s)
MatchesDotZero(s) ==
    /\ Len(s) >= 3
    /\ s[Len(s)] = "0"
    /\ s[Len(s) - 1] = "."
    /\ \A i \in 1..(Len(s) - 2) : s[i] \in Digits

\* The characters of [A-Za-z0-9\-\/].
NumberTokenChars == Upper \cup Lower \cup Digits \cup {"-", "/"}

\* The groups <<number, rest>> for a string t without leading whitespace whose
\* token has k characters, or <<>> when the pattern does not match.
LeadingNumberGroups(t, k) ==
    IF /\ Len(t) > k
       /\ t[1] \in Digits
       /\ t[k + 1] \in Whitespace
       /\ \A i \in (SkipForward(t, Whitespace, k + 1))..Len(t) : t[i] /= "\n"
    THEN <<SubSeq(t, 1, k), SubSeq(t, SkipForward(t, Whitespace, k + 1), Len(t))>>
    ELSE <<>>

\* re.match(r'^\s*([0-9]+[A-Za-z0-9\-\/]*)\s+(.*)$', s): the groups <<number, rest>>
\* of the match, or <<>> when there is none.  The token is matched greedily; giving
\* characters of it back never helps, since the next one is then a token character
\* and not whitespace.  '.' matches no newline.
MatchLeadingNumber(s) ==
    Let(LStrip(s), LAMBDA t : LeadingNumberGroups(t, PrefixLen(t, NumberTokenChars)))

\* The number of a match: normalised with int(float()) when
\* re.match(r'^\d+(\.0+)?$') holds, which may raise.
NumberOf(token) ==
    Let(Strip(token),
        LAMBDA number : IF \A i \in DOMAIN number : number[i] \in Digits
                        THEN IntOfFloatStr(number) ELSE StrV(number))

\* The pair returned for the number and the rest of a match; an exception raised for
\* the number leaves the function, written as the pair of the exception.
MatchedPair(number, rest) ==
    IF number = OverflowError THEN <<OverflowError, OverflowError>>
    ELSE <<number, StrV(RStripDots(Strip(rest)))>>

\* The pair returned for the stripped and ".0"-corrected string s and its match m.
ParsedPair(s, m) ==
    IF m /= <<>>
    THEN Let(NumberOf(m[1]), LAMBDA number : MatchedPair(number, m[2]))
    ELSE <<None, StrV(RStripDots(s))>>

\* The part of _parse_address_field after s = str(addr).strip().
ParseStripped(s0) ==
    Let(IF MatchesDotZero(s0) THEN SubSeq(s0, 1, Len(s0) - 2) ELSE s0,
        LAMBDA s : Let(MatchLeadingNumber(s), LAMBDA m : ParsedPair(s, m)))

\* _parse_address_field(addr): the pair <<number, street>>, or the pair of the
\* exception raised.
_parse_address_field(addr) ==
    Let(addr, LAMBDA a : IF IsNA(a) THEN <<None, None>>
                         ELSE Let(Strip(PyStr(a)), ParseStripped))

\* The other convention: f"+1 ({d[0:3]}) {d[3:6]}-{d[6:10]}"
FormatTenDigitsWithCountryCode(d) ==
    <<"+", "1", " ", "(">> \o SubSeq(d, 1, 3) \o <<")", " ">> \o SubSeq(d, 4, 6)
        \o <<"-">> \o SubSeq(d, 7, 10)

\* f"{d[0:3]}-{d[3:6]}-{d[6:10]}"
FormatTenDigits(d) ==
    SubSeq(d, 1, 3) \o <<"-">> \o SubSeq(d, 4, 6) \o <<"-">> \o SubSeq(d, 7, 10)

\* A formatting that writes ten digits behind a 1 and leaves them ungrouped.
FormatPhoneStringPrefixingOne(s, digits) ==
    IF s /= <<>> /\ s[1] = "+" THEN StrV(s)
    ELSE IF Len(digits) = 10 THEN StrV(<<"1">> \o digits)
    ELSE IF Len(digits) = 11 /\ digits[1] = "1"
         THEN StrV(SubSeq(digits, 2, 4) \o <<"-">> \o SubSeq(digits, 5, 7) \o <<"-">>
                   \o SubSeq(digits, 8, 11))
    ELSE IF s /= <<>> THEN StrV(s) ELSE None

\* The part of _format_phone_to_north_american after s is set.
FormatPhoneString(s, digits) ==
    IF s /= <<>> /\ s[1] = "+" THEN StrV(s)
    ELSE IF Len(digits) = 10 THEN StrV(FormatTenDigits(digits))
    ELSE IF Len(digits) = 11 /\ digits[1] = "1"
         THEN StrV(FormatTenDigits(SubSeq(digits, 2, 11)))
    ELSE IF s /= <<>> THEN StrV(s) ELSE None

\* _format_phone_to_north_american(phone_text)
_format_phone_to_north_american(phone_text) ==
    Let(phone_text,
        LAMBDA p : IF IsNA(p) THEN None
                   ELSE Let(IF p.t = "float" THEN p.s ELSE Strip(PyStr(p)),
                            LAMBDA s : Let(Keep(s, Digits),
                                           LAMBDA digits : FormatPhoneString(s, digits))))

\* The pieces of s from position i on, the current piece starting at position start:
\* s is cut at the maximal runs of characters of C, the runs are kept, and the list
\* alternates piece, run, piece, ...  inRun tells whether the current piece is a run.
RECURSIVE SplitRunsFrom(_, _, _, _, _)
SplitRunsFrom(s, C, start, i, inRun) ==
    IF i > Len(s)
    THEN (IF inRun THEN <<SubSeq(s, start, Len(s)), <<>>>>
          ELSE <<SubSeq(s, start, Len(s))>>)
    ELSE IF (s[i] \in C) = inRun THEN SplitRunsFrom(s, C, start, i + 1, inRun)
    ELSE <<SubSeq(s, start, i - 1)>> \o SplitRunsFrom(s, C, i, i + 1, ~inRun)

\* re.split(r'(\s+)', s) for C the whitespace.
SplitRuns(s, C) == Let(s, LAMBDA v : SplitRunsFrom(v, C, 1, 1, FALSE))

\* The pieces of s from position i on, the current piece starting at position start:
\* s is cut at every character of C, the separators are kept.
RECURSIVE SplitEachFrom(_, _, _, _)
SplitEachFrom(s, C, start, i) ==
    IF i > Len(s) THEN <<SubSeq(s, start, Len(s))>>
    ELSE IF s[i] \in C
         THEN <<SubSeq(s, start, i - 1), <<s[i]>>>> \o SplitEachFrom(s, C, i + 1, i + 1)
    ELSE SplitEachFrom(s, C, start, i + 1)

\* re.split(r"(')", s) and re.split(r'([-/])', s) for C the separators.
SplitEach(s, C) == Let(s, LAMBDA v : SplitEachFrom(v, C, 1, 1))

\* cap_segment(seg)
cap_segment(seg) ==
    Let(seg, LAMBDA v :
        IF IsUpper(v) /\ Len(v) <= 3 THEN v
        ELSE IF IsUpper(v) THEN v
        ELSE IF v /= <<>>
             THEN StrUpper(SubSeq(v, 1, 1)) \o StrLower(SubSeq(v, 2, Len(v)))
        ELSE v)

\* sp in "-/": sp is a substring of "-/".
InDashSlash(sp) == sp \in {<<>>, <<"-">>, <<"/">>, <<"-", "/">>}

\* cap_segment(sp) if sp not in "-/" else sp
CapUnlessSeparator(sp) == IF ~InDashSlash(sp) THEN cap_segment(sp) ELSE sp

\* The part after an apostrophe: its '-' and '/' separated segments capitalised.
CapAfterApostrophe(next_part) ==
    Let(SplitEach(next_part, {"-", "/"}),
        LAMBDA subparts : Join([i \in DOMAIN subparts |-> CapUnlessSeparator(subparts[i])]))

\* The loop body over the subparts of a part that is no apostrophe.
CapPlainSegment(sp) ==
    IF InDashSlash(sp) THEN sp
    ELSE IF IsUpper(sp) /\ Len(sp) <= 3 THEN sp
    ELSE cap_segment(sp)

\* A part that is no apostrophe: its '-' and '/' separated segments capitalised.
CapPlainPart(part) ==
    Let(SplitEach(part, {"-", "/"}),
        LAMBDA subparts : Join([i \in DOMAIN subparts |-> CapPlainSegment(subparts[i])]))

\* The while loop over the parts of one token, from index i (1-based).
RECURSIVE RebuildParts(_, _)
RebuildParts(parts, i) ==
    IF i > Len(parts) THEN <<>>
    ELSE IF parts[i] = <<"'">>
    THEN LET next_part == IF i + 1 <= Len(parts) THEN parts[i + 1] ELSE <<>>
         IN  IF StrLower(next_part) = <<"s">>
             THEN <<"'", "s">> \o RebuildParts(parts, i + 2)
             ELSE IF next_part /= <<>>
             THEN <<"'">> \o CapAfterApostrophe(next_part) \o RebuildParts(parts, i + 2)
             ELSE <<"'">> \o RebuildParts(parts, i + 1)
    ELSE CapPlainPart(parts[i]) \o RebuildParts(parts, i + 1)

\* TitleToken with every whitespace run written as one space.
TitleTokenSingleSpace(token) ==
    IF IsSpace(token) THEN <<" ">>
    ELSE Let(SplitEach(token, {"'"}), LAMBDA parts : RebuildParts(parts, 1))

\* One element of tokens: a whitespace run is kept, a token is rebuilt.
TitleToken(token) ==
    IF IsSpace(token) THEN token
    ELSE Let(SplitEach(token, {"'"}), LAMBDA parts : RebuildParts(parts, 1))

\* The part of _title_case_safe for a string, after s = x.strip().
TitleCaseStripped(s) ==
    IF s = <<>> THEN StrV(s)
    ELSE Let(SplitRuns(s, Whitespace),
             LAMBDA tokens : StrV(Join([i \in DOMAIN tokens |-> TitleToken(tokens[i])])))

\* _title_case_safe(x)
_title_case_safe(x) ==
    Let(x, LAMBDA v : IF IsNA(v) THEN v
                      ELSE IF v.t /= "str" THEN v
                      ELSE Let(Strip(v.s), TitleCaseStripped))

-----------------------------------------------------------------------------
(* convert.py: transform_to_nwp *)

REQUIRED_ORIGINAL_COLUMNS ==
    <<<<"A", "d", "d", "r", "e", "s", "s", "_", "I", "D">>,
      <<"T", "e", "r", "r", "i", "t", "o", "r", "y", "_", "I", "D">>,
      <<"L", "a", "n", "g", "u", "a", "g", "e">>,
      <<"S", "t", "a", "t", "u", "s">>,
      <<"N", "a", "m", "e">>,
      <<"S", "u", "i", "t", "e">>,
      <<"A", "d", "d", "r", "e", "s", "s">>,
      <<"C", "i", "t", "y">>,
      <<"P", "r", "o", "v", "i", "n", "c", "e">>,
      <<"P", "o", "s", "t", "a", "l", "_", "c", "o", "d", "e">>,
      <<"C", "o", "u", "n", "t", "r", "y">>,
      <<"L", "a", "t", "i", "t", "u", "d", "e">>,
      <<"L", "o", "n", "g", "i", "t", "u", "d", "e">>,
      <<"T", "e", "l", "e", "p", "h", "o", "n", "e">>,
      <<"O", "w", "n", "e", "r">>,
      <<"N", "o", "t", "e", "s">>,
      <<"N", "o", "t", "e", "s", "_", "p", "r", "i", "v", "a", "t", "e">>,
      <<"A", "c", "c", "o", "u", "n", "t">>,
      <<"C", "r", "e", "a", "t", "e", "d">>,
      <<"M", "o", "d", "i", "f", "i", "e", "d">>,
      <<"C", "o", "n", "t", "a", "c", "t", "e", "d">>,
      <<"G", "e", "o", "c", "o", "d", "e", "d">>,
      <<"T", "e", "r", "r", "i", "t", "o", "r", "y", "_", "n", "u", "m", "b", "e", "r">>,
      <<"T", "e", "r", "r", "i", "t", "o", "r", "y", "_", "d", "e", "s", "c", "r", "i", "p", "t", "i", "o", "n">>>>

\* The target columns without the last one: a schema of 25 entries.
TargetColumnsWithoutLast ==
    <<"TerritoryID", "TerritoryNumber", "CategoryCode", "Category", "TerritoryAddressID",
      "ApartmentNumber", "Number", "Street", "Suburb", "PostalCode", "State", "Name",
      "Phone", "Type", "Status", "NotHomeAttempt", "Date1", "Date2", "Date3", "Date4",
      "Date5", "Language", "Latitude", "Longitude", "Notes">>

TARGET_COLUMNS ==
    <<"TerritoryID", "TerritoryNumber", "CategoryCode", "Category", "TerritoryAddressID",
      "ApartmentNumber", "Number", "Street", "Suburb", "PostalCode", "State", "Name",
      "Phone", "Type", "Status", "NotHomeAttempt", "Date1", "Date2", "Date3", "Date4",
      "Date5", "Language", "Latitude", "Longitude", "Notes", "NotesFromPublisher">>

\* A DataFrame: the column labels, the index labels and one row per index label, a
\* row being a function from the column labels to cell values.
EmptyTable == [columns |-> <<>>, index |-> <<>>, rows |-> <<>>]

\* The logical source columns that transform_to_nwp looks up with _get_col.
name_Address == <<"A", "d", "d", "r", "e", "s", "s">>
name_Suite == <<"S", "u", "i", "t", "e">>
name_City == <<"C", "i", "t", "y">>
name_Postal_code == <<"P", "o", "s", "t", "a", "l", "_", "c", "o", "d", "e">>
name_Province == <<"P", "r", "o", "v", "i", "n", "c", "e">>
name_Name == <<"N", "a", "m", "e">>
name_Telephone == <<"T", "e", "l", "e", "p", "h", "o", "n", "e">>
name_Language == <<"L", "a", "n", "g", "u", "a", "g", "e">>
name_Latitude == <<"L", "a", "t", "i", "t", "u", "d", "e">>
name_Longitude == <<"L", "o", "n", "g", "i", "t", "u", "d", "e">>
name_Notes == <<"N", "o", "t", "e", "s">>

\* A validation that stops at the first required name that is no key of cmap.
MissingFromFirstOnly(reqs, cmap) ==
    Let(SelectSeq(reqs, LAMBDA req : _norm_col_name(StrV(req)) \notin DOMAIN cmap),
        LAMBDA all : IF all = <<>> THEN <<>> ELSE <<Head(all)>>)

\* The loop over REQUIRED_ORIGINAL_COLUMNS: the required names whose normalised form
\* is no key of cmap, in the order of the list.
MissingFrom(reqs, cmap) ==
    SelectSeq(reqs, LAMBDA req : _norm_col_name(StrV(req)) \notin DOMAIN cmap)

\* Lines 72-76: cmap and the list missing.
MissingColumns(t) ==
    Let(_build_col_map(t), LAMBDA cmap : MissingFrom(REQUIRED_ORIGINAL_COLUMNS, cmap))

\* bool(v) of a column label: None and '' are false.
Truthy(v) == ~(v.t = "none" \/ (v.t = "str" /\ v.s = <<>>))

\* Lines 84-94: the source columns, each resolved with _get_col.
ResolvedColumns(t) ==
    [col_Address |-> _get_col(t, StrV(name_Address)),
     col_Suite |-> _get_col(t, StrV(name_Suite)),
     col_City |-> _get_col(t, StrV(name_City)),
     col_Postal |-> _get_col(t, StrV(name_Postal_code)),
     col_Province |-> _get_col(t, StrV(name_Province)),
     col_Name |-> _get_col(t, StrV(name_Name)),
     col_Telephone |-> _get_col(t, StrV(name_Telephone)),
     col_Language |-> _get_col(t, StrV(name_Language)),
     col_Lat |-> _get_col(t, StrV(name_Latitude)),
     col_Lon |-> _get_col(t, StrV(name_Longitude)),
     col_Notes |-> _get_col(t, StrV(name_Notes))]

\* d[col] if col else None, for one row.
ColumnOrNone(row, col) == IF Truthy(col) THEN row[col] ELSE None

\* addr_series: d[col_Address].astype(str).where(d[col_Address].notna(), None)
AddrSeriesCell(row, col) ==
    Let(row[col], LAMBDA v : IF IsNA(v) THEN None ELSE StrV(PyStr(v)))

\* The value assigned to column c of out from the source row, for the columns that
\* are assigned one (lines 116-123 and 132-135).
SourceValue(cols, row, c) ==
    CASE c = "ApartmentNumber" -> ColumnOrNone(row, cols.col_Suite)
      [] c = "Number" ->
            _parse_address_field(AddrSeriesCell(row, cols.col_Address))[1]
      [] c = "Street" ->
            _parse_address_field(AddrSeriesCell(row, cols.col_Address))[2]
      [] c = "Suburb" -> ColumnOrNone(row, cols.col_City)
      [] c = "PostalCode" -> ColumnOrNone(row, cols.col_Postal)
      [] c = "State" -> ColumnOrNone(row, cols.col_Province)
      [] c = "Name" -> ColumnOrNone(row, cols.col_Name)
      [] c = "Phone" ->
            IF Truthy(cols.col_Telephone)
            THEN _format_phone_to_north_american(row[cols.col_Telephone])
            ELSE None
      [] c = "Language" -> ColumnOrNone(row, cols.col_Language)
      [] c = "Latitude" -> ColumnOrNone(row, cols.col_Lat)
      [] c = "Longitude" -> ColumnOrNone(row, cols.col_Lon)
      [] c = "Notes" -> ColumnOrNone(row, cols.col_Notes)

\* The columns of out that are assigned from the source.
SourceAssigned ==
    {"ApartmentNumber", "Number", "Street", "Suburb", "PostalCode", "State", "Name",
     "Phone", "Language", "Latitude", "Longitude", "Notes"}

\* An assignment that copies the source column Status to the target column Status.
AssignedValueCopyingStatus(cols, row, c) ==
    IF c = "Status"
    THEN row[CHOOSE l \in DOMAIN row : _norm_col_name(l) = <<"s", "t", "a", "t", "u", "s">>]
    ELSE IF c \in SourceAssigned THEN SourceValue(cols, row, c)
    ELSE None

\* The value assigned to column c of out for one source row (lines 111-136): None
\* for the columns that are not assigned from the source.
AssignedValue(cols, row, c) ==
    IF c \in SourceAssigned THEN SourceValue(cols, row, c) ELSE None

\* The columns of out in the order of their assignment.
AssignedColumns ==
    <<"TerritoryID", "TerritoryNumber", "CategoryCode", "Category", "TerritoryAddressID",
      "ApartmentNumber", "Number", "Street", "Suburb", "PostalCode", "State", "Name",
      "Phone", "Type", "Status", "NotHomeAttempt", "Date1", "Date2", "Date3", "Date4",
      "Date5", "Language", "Latitude", "Longitude", "Notes", "NotesFromPublisher">>

title_cols == {"Street", "Suburb", "State", "Name", "ApartmentNumber", "Category",
               "CategoryCode", "Type", "Status"}

primary_cols == <<"Street", "Number", "ApartmentNumber", "Suburb", "State">>

\* One row of out after the assignments and the title-casing of title_cols.
MapRow(cols, row) ==
    [c \in Range(AssignedColumns) |->
        IF c \in title_cols THEN _title_case_safe(AssignedValue(cols, row, c))
        ELSE AssignedValue(cols, row, c)]

\* out after lines 108-144: built on the index of the source.
MapTable(t) ==
    Let(ResolvedColumns(t),
        LAMBDA cols : [columns |-> AssignedColumns,
                       index |-> t.index,
                       rows |-> [i \in DOMAIN t.rows |-> MapRow(cols, t.rows[i])]])

\* A row of sort_df without the where(): a missing value is its astype(str) text.
SortKeyWithoutFill(row) ==
    [i \in DOMAIN primary_cols |-> PyStr(row[primary_cols[i]])]

\* One row of sort_df: out[col].astype(str).where(out[col].notna(), '') per column.
SortKey(row) ==
    [i \in DOMAIN primary_cols |->
        IF IsNA(row[primary_cols[i]]) THEN <<>> ELSE PyStr(row[primary_cols[i]])]

\* a < b on two rows of sort_df: column by column, strings by code point.
RECURSIVE KeyLessFrom(_, _, _)
KeyLessFrom(a, b, i) ==
    IF i > Len(a) THEN FALSE
    ELSE IF a[i] = b[i] THEN KeyLessFrom(a, b, i + 1)
    ELSE StrLess(a[i], b[i])
KeyLess(a, b) == KeyLessFrom(a, b, 1)

\* Position p put into a sorted list of positions: behind every position whose key
\* is not greater, so that equal keys keep their order (the sort is stable).
RECURSIVE InsertFrom(_, _, _, _)
InsertFrom(p, sorted, keys, i) ==
    IF i > Len(sorted) THEN Append(sorted, p)
    ELSE IF KeyLess(keys[p], keys[sorted[i]])
         THEN SubSeq(sorted, 1, i - 1) \o <<p>> \o SubSeq(sorted, i, Len(sorted))
    ELSE InsertFrom(p, sorted, keys, i + 1)
InsertPosition(p, sorted, keys) ==
    Let(sorted, LAMBDA done : InsertFrom(p, done, keys, 1))

\* sort_df.sort_values(by=primary_cols, na_position="last"): the positions 1..n in
\* sorted order.  No cell of sort_df is NA, so na_position moves nothing.
RECURSIVE SortedPositions(_, _)
SortedPositions(n, keys) ==
    IF n = 0 THEN <<>>
    ELSE InsertPosition(n, SortedPositions(n - 1, keys), keys)

\* out.reindex(sorted_idx), skipped when sort_df is empty.
SortTable(o) ==
    IF o.rows = <<>> THEN o
    ELSE Let([i \in DOMAIN o.rows |-> SortKey(o.rows[i])],
             LAMBDA keys :
                 Let(SortedPositions(Len(o.rows), keys),
                     LAMBDA perm : [columns |-> o.columns,
                                    index |-> [k \in DOMAIN perm |-> o.index[perm[k]]],
                                    rows |-> [k \in DOMAIN perm |-> o.rows[perm[k]]]]))

\* Equality of two cells as drop_duplicates sees it: missing values are equal to each
\* other, numbers are equal by value, strings by text.
SameCell(a, b) ==
    \/ IsNA(a) /\ IsNA(b)
    \/ a.t = "str" /\ b.t = "str" /\ a.s = b.s
    \/ a.t \in {"int", "float"} /\ b.t \in {"int", "float"} /\ a.s = b.s

SamePrimary(r1, r2) ==
    \A i \in DOMAIN primary_cols : SameCell(r1[primary_cols[i]], r2[primary_cols[i]])

\* The positions kept when a row is compared with the row before it only.
KeptPositionsAdjacent(rows) ==
    {k \in DOMAIN rows : k = 1 \/ ~SamePrimary(rows[k - 1], rows[k])}

\* The positions kept by drop_duplicates(subset=primary_cols, keep="last").
KeptPositionsLast(rows) ==
    {k \in DOMAIN rows : \A j \in (k + 1)..Len(rows) : ~SamePrimary(rows[j], rows[k])}

\* The positions kept by drop_duplicates(subset=primary_cols, keep="first").
KeptPositions(rows) ==
    {k \in DOMAIN rows : \A j \in 1..(k - 1) : ~SamePrimary(rows[j], rows[k])}

\* The elements of s at the positions of P, order kept.
RECURSIVE SelectPositions(_, _, _)
SelectPositions(s, P, k) ==
    IF k > Len(s) THEN <<>>
    ELSE IF k \in P THEN <<s[k]>> \o SelectPositions(s, P, k + 1)
    ELSE SelectPositions(s, P, k + 1)

DropDuplicates(o) ==
    Let(KeptPositions(o.rows),
        LAMBDA kept : [columns |-> o.columns,
                       index |-> SelectPositions(o.index, kept, 1),
                       rows |-> SelectPositions(o.rows, kept, 1)])

\* Lines 166-174: the missing target columns added as None, the columns put in the
\* order of TARGET_COLUMNS, the index reset to 1..n.
FinalizeTable(o) ==
    [columns |-> TARGET_COLUMNS,
     index |-> [k \in DOMAIN o.rows |-> k],
     rows |-> [k \in DOMAIN o.rows |->
                 [c \in Range(TARGET_COLUMNS) |->
                     IF c \in Range(o.columns) THEN o.rows[k][c] ELSE None]]]

-----------------------------------------------------------------------------
(* The source tables the model transforms *)

\* The largest number of rows of a source table, and of one transformed under
\* fairness.
MaxRows == 3
MaxLiveRows == 2

\* The cells of a source row that the transformation reads and that vary, as pandas
\* reads them from a file: texts, whole numbers, NaN for an empty cell.  The house
\* numbers of the addresses have few digits.
SampleRows ==
    {[Address |-> StrV(<<"1", " ", "M", "a", "i", "n", " ", "S", "t", ".">>), Suite |-> StrV(<<"A">>), City |-> StrV(<<"R", "o", "m", "e">>),
      Province |-> StrV(<<"Q", "C">>), Name |-> StrV(<<"A", "n", "n">>), Telephone |-> StrV(<<"5", "1", "4", "5", "5", "5", "1", "2", "3", "4">>)],
     [Address |-> StrV(<<"1", " ", "m", "a", "i", "n", " ", "s", "t">>), Suite |-> StrV(<<"a">>), City |-> StrV(<<"r", "o", "m", "e">>),
      Province |-> StrV(<<"Q", "C">>), Name |-> StrV(<<"B", "o", "b">>), Telephone |-> NaN],
     [Address |-> NaN, Suite |-> NaN, City |-> StrV(<<"R", "o", "m", "e">>),
      Province |-> StrV(<<"Q", "C">>), Name |-> StrV(<<"A", "n", "n">>), Telephone |-> FloatV(<<"1", "5", "1", "4", "5", "5", "5", "1", "2", "3", "4">>)],
     [Address |-> StrV(<<"1", " ", "M", "a", "i", "n", " ", "S", "t">>), Suite |-> NaN, City |-> StrV(<<"R", "o", "m", "e">>),
      Province |-> StrV(<<"Q", "C">>), Name |-> StrV(<<"C", "y">>), Telephone |-> StrV(<<"+", "3", "3", " ", "1">>)],
     [Address |-> StrV(<<"E", "l", "m">>), Suite |-> IntV(<<"1">>), City |-> NaN,
      Province |-> StrV(<<"Q", "C">>), Name |-> StrV(<<"A", "n", "n">>), Telephone |-> StrV(<<"5", "5", "5", "-", "1", "2", "3", "4">>)],
     [Address |-> StrV(<<"1", " ", "M", "a", "i", "n", " ", "S", "t">>), Suite |-> StrV(<<"A">>), City |-> StrV(<<"R", "o", "m", "e">>),
      Province |-> NaN, Name |-> StrV(<<"A", "n", "n">>), Telephone |-> NaN],
     [Address |-> StrV(<<>>), Suite |-> NaN, City |-> StrV(<<"R", "o", "m", "e">>),
      Province |-> StrV(<<"Q", "C">>), Name |-> StrV(<<"B", "o", "b">>), Telephone |-> NaN]}

\* The header of an Alba export, and one with the columns in another order, other
\* spellings of the names and two columns that are no part of the export.
ExportHeader == [i \in DOMAIN REQUIRED_ORIGINAL_COLUMNS |-> StrV(REQUIRED_ORIGINAL_COLUMNS[i])]
VariantHeader ==
    <<StrV(<<"E", "x", "t", "r", "a">>),
      StrV(<<"t", "e", "r", "r", "i", "t", "o", "r", "y", " ", "d", "e", "s", "c", "r", "i", "p", "t", "i", "o", "n">>),
      StrV(<<"T", "e", "r", "r", "i", "t", "o", "r", "y", "_", "n", "u", "m", "b", "e", "r">>),
      StrV(<<"G", "e", "o", "c", "o", "d", "e", "d">>),
      StrV(<<"C", "o", "n", "t", "a", "c", "t", "e", "d">>),
      StrV(<<"M", "o", "d", "i", "f", "i", "e", "d">>),
      StrV(<<"C", "r", "e", "a", "t", "e", "d">>),
      StrV(<<"A", "c", "c", "o", "u", "n", "t">>),
      StrV(<<"N", "o", "t", "e", "s", "_", "p", "r", "i", "v", "a", "t", "e">>),
      StrV(<<"N", "O", "T", "E", "S">>),
      StrV(<<"O", "w", "n", "e", "r">>),
      StrV(<<" ", "t", "e", "l", "e", "p", "h", "o", "n", "e", " ">>),
      StrV(<<"L", "o", "n", "g", "i", "t", "u", "d", "e">>),
      StrV(<<"L", "a", "t", "i", "t", "u", "d", "e">>),
      StrV(<<"C", "o", "u", "n", "t", "r", "y">>),
      StrV(<<"P", "O", "S", "T", "A", "L", " ", "C", "O", "D", "E">>),
      StrV(<<"p", "r", "o", "v", "i", "n", "c", "e">>),
      StrV(<<"C", "i", "t", "y">>),
      StrV(<<"A", "D", "D", "R", "E", "S", "S">>),
      StrV(<<"S", "u", "i", "t", "e">>),
      StrV(<<"N", "a", "m", "e">>),
      StrV(<<"S", "t", "a", "t", "u", "s">>),
      StrV(<<"T", "y", "p", "e">>),
      StrV(<<"L", "a", "n", "g", "u", "a", "g", "e">>),
      StrV(<<"T", "e", "r", "r", "i", "t", "o", "r", "y", "_", "I", "D">>),
      StrV(<<"A", "d", "d", "r", "e", "s", "s", "_", "I", "D">>)>>

\* Column names left out of a header to make it fail the validation.
Droppable == {name_Address, name_Telephone, <<"G", "e", "o", "c", "o", "d", "e", "d">>}

WithoutColumns(h, names) == SelectSeq(h, LAMBDA c : c.s \notin names)

ValidHeaders == {ExportHeader, VariantHeader}
InvalidHeaders ==
    {WithoutColumns(h, D) : h \in ValidHeaders, D \in (SUBSET Droppable) \ {{}}}

\* The cell of a source row under the column with normalised name n.
SourceCell(sample, n) ==
    CASE n = <<"a", "d", "d", "r", "e", "s", "s">> -> sample.Address
      [] n = <<"s", "u", "i", "t", "e">> -> sample.Suite
      [] n = <<"c", "i", "t", "y">> -> sample.City
      [] n = <<"p", "r", "o", "v", "i", "n", "c", "e">> -> sample.Province
      [] n = <<"n", "a", "m", "e">> -> sample.Name
      [] n = <<"t", "e", "l", "e", "p", "h", "o", "n", "e">> -> sample.Telephone
      [] n = <<"s", "t", "a", "t", "u", "s">> -> StrV(<<"d", "o", "n", "e">>)
      [] n = <<"t", "y", "p", "e">> -> StrV(<<"h", "o", "m", "e">>)
      [] n = <<"t", "e", "r", "r", "i", "t", "o", "r", "y", "i", "d">> -> IntV(<<"7">>)
      [] OTHER -> StrV(<<"x">>)

\* A DataFrame as read from a file: the header, a RangeIndex from 0, the rows.
MakeTable(h, samples) ==
    LET norms == [c \in Range(h) |-> _norm_col_name(c)]
    IN  [columns |-> h,
         index |-> [i \in DOMAIN samples |-> i - 1],
         rows |-> [i \in DOMAIN samples |->
                     [c \in Range(h) |-> SourceCell(samples[i], norms[c])]]]

SeqsUpTo(S, n) == UNION {[1..k -> S] : k \in 0..n}

\* The source tables of up to n rows; a table that fails the validation has at most
\* one row, since the validation reads the header only.
TablesUpTo(n) ==
    {MakeTable(h, rs) : h \in ValidHeaders, rs \in SeqsUpTo(SampleRows, n)}
    \cup {MakeTable(h, rs) : h \in InvalidHeaders, rs \in SeqsUpTo(SampleRows, 1)}

SourceTables == TablesUpTo(MaxRows)

\* The largest number of sheets of an uploaded workbook.
MaxSheets == 2

\* The name of the k-th sheet of a workbook.
SheetNames == <<<<"S", "h", "e", "e", "t", "1">>, <<"S", "h", "e", "e", "t", "2">>, <<"S", "h", "e", "e", "t", "3">>, <<"S", "h", "e", "e", "t", "4">>>>

\* The tables of the sheets: a good one of one row, a good one of two rows that map
\* to the same tuple, and one without the Address column.
SheetTables ==
    {MakeTable(ExportHeader, <<r>>) :
         r \in {s \in SampleRows : s.Name = StrV(<<"C", "y">>)}}
    \cup {MakeTable(VariantHeader, <<r1, r2>>) :
              r1 \in {s \in SampleRows : s.Suite = StrV(<<"A">>) /\ s.Province = StrV(<<"Q", "C">>)},
              r2 \in {s \in SampleRows : s.Suite = StrV(<<"a">>)}}
    \cup {MakeTable(WithoutColumns(ExportHeader, {name_Address}), <<>>)}

\* The workbooks read_workbook_from_filelike returns: the dict of the sheets in file
\* order, the keys being distinct strings.
Workbooks ==
    UNION {{[k \in 1..n |-> [name |-> SheetNames[k], table |-> ts[k]]] :
               ts \in [1..n -> SheetTables]} : n \in 1..MaxSheets}

\* The sheet_name arguments: None, the empty string, the name of a sheet that may
\* be in the workbook, a name that is in no workbook.
SheetNameArguments ==
    {None, StrV(<<>>), StrV(<<"N", "o", "t", "F", "o", "u", "n", "d">>)}
    \cup {StrV(SheetNames[k]) : k \in 1..MaxSheets}

\* The largest length of an address given to _parse_address_field alone.
MaxAddrLen == 5

\* A house number of 310 digits, which no float holds.
LongNumber == [i \in 1..310 |-> "9"]

AddrArguments ==
    {None, NaN}
    \cup {StrV(s) : s \in SeqsUpTo({"0", "1", "a", " ", "."}, MaxAddrLen)}
    \cup {StrV(LongNumber \o <<" ", "a">>)}


\* The digits of the telephone numbers: a number of ten digits, the same behind a
\* 1, behind a 2 and behind 11, without its first digit, and with a digit more.
TenDigits == <<"5", "1", "4", "5", "5", "5", "1", "2", "3", "4">>
PhoneDigits ==
    {TenDigits, <<"1">> \o TenDigits, <<"2">> \o TenDigits, <<"1", "1">> \o TenDigits,
     Tail(TenDigits), TenDigits \o <<"0">>}

\* The digits d written with a prefix, a separator behind the k-th digit and a suffix.
WrittenPhone(d, pre, sep, k, suf) ==
    pre \o SubSeq(d, 1, k) \o sep \o SubSeq(d, k + 1, Len(d)) \o suf

\* The largest length of the other telephone texts.
MaxPhoneLen == 3

\* The arguments of _format_phone_to_north_american: None, NaN, the numbers as texts,
\* as ints and as floats, and the short texts.
PhoneArguments ==
    {None, NaN}
    \cup {StrV(WrittenPhone(d, pre, sep, k, suf)) :
              d \in PhoneDigits,
              pre \in {<<>>, <<" ">>, <<"+">>, <<" ", "+">>, <<"(">>},
              sep \in {<<>>, <<"-">>, <<" ">>},
              k \in {1, 3, 4},
              suf \in {<<>>, <<" ">>, <<"x">>}}
    \cup {IntV(d) : d \in PhoneDigits}
    \cup {FloatV(d) : d \in PhoneDigits}
    \cup {StrV(s) : s \in SeqsUpTo({"1", "+", " ", "a"}, MaxPhoneLen)}

\* The largest length of the texts given to _title_case_safe.
MaxTitleLen == 4

\* The arguments of _title_case_safe: None, NaN, numbers and the short texts of
\* letters of both cases, one with a two-letter uppercase, a digit, whitespace, the
\* apostrophe, the hyphen and the slash.
TitleArguments ==
    {None, NaN, IntV(<<"1", "2", "3">>), FloatV(<<"1", "2", "3">>)}
    \cup {StrV(s) : s \in SeqsUpTo({"a", "s", "S", SharpS, "1", " ", "'", "-", "/"},
                                     MaxTitleLen)}

\* The column names of the tables given to _get_col: the names of test_get_col,
\* other spellings with the same normalised name, the empty name and a null name.
LookupColumnNames ==
    {StrV(<<"P", "o", "s", "t", "a", "l", "_", "c", "o", "d", "e">>), StrV(<<"p", "o", "s", "t", "a", "l", " ", "c", "o", "d", "e">>), StrV(<<" ", "P", "O", "S", "T", "A", "L", "C", "O", "D", "E", " ">>),
     StrV(<<"T", "e", "l", "e", "p", "h", "o", "n", "e">>), StrV(<<"S", "u", "i", "t", "e", " ", "N", "u", "m", "b", "e", "r">>),
     StrV(<<>>), None}

\* The largest number of columns of these tables; a table can have several columns
\* with one name.
MaxLookupColumns == 2
LookupHeaders == SeqsUpTo(LookupColumnNames, MaxLookupColumns)

\* The logical names looked up.
LookupNames ==
    {StrV(<<"p", "o", "s", "t", "a", "l", "_", "c", "o", "d", "e">>), StrV(<<"P", "o", "s", "t", "a", "l", " ", "C", "o", "d", "e">>), StrV(<<"T", "E", "L", "E", "P", "H", "O", "N", "E">>),
     StrV(<<"n", "o", "t", "f", "o", "u", "n", "d">>), StrV(<<"n", "o", "n", "e">>), StrV(<<>>), None}
-----------------------------------------------------------------------------
(* transform_to_nwp as a state machine: one action per stage *)

\* No value returned (yet).
NoResult == [kind |-> "none"]

transformVars == <<df, pc, missing, out, error>>
uploadVars == <<workbook, sheet_name, upc, selected, transformed, result>>
addressVars == <<addr_in, parsed>>
phoneVars == <<phone_in, formatted, reformatted>>
titleVars == <<title_in, titled, retitled>>
lookupVars == <<lookup_columns, lookup_name, lookup_other, found, found_other>>
unitVars == <<addressVars, phoneVars, titleVars, lookupVars>>

\* Lines 71-78: the required columns are looked up; a missing one raises ValueError
\* with the list of all missing names.
Validate ==
    /\ pc = "Unvalidated"
    /\ missing' = MissingColumns(df)
    /\ IF missing' /= <<>>
       THEN pc' = "Error" /\ error' = "MissingColumns"
       ELSE pc' = "Validated" /\ UNCHANGED error
    /\ UNCHANGED <<df, out, upc, workbook, sheet_name, selected, transformed, result>>
    /\ UNCHANGED unitVars

\* The parse of an address of table t raises (line 98).
ParseRaised(t) ==
    Let(_get_col(t, StrV(name_Address)),
        LAMBDA col : \E i \in DOMAIN t.rows :
            _parse_address_field(AddrSeriesCell(t.rows[i], col))[1] = OverflowError)

\* Lines 80-144: the target columns are assigned and the text columns title-cased; an
\* exception of _parse_address_field leaves transform_to_nwp.
Map ==
    /\ pc = "Validated"
    /\ IF ParseRaised(df)
       THEN /\ pc' = "Error"
            /\ error' = "OverflowError"
            /\ UNCHANGED out
       ELSE /\ pc' = "Mapped"
            /\ out' = MapTable(df)
            /\ UNCHANGED error
    /\ UNCHANGED <<df, missing>>
    /\ UNCHANGED uploadVars
    /\ UNCHANGED unitVars

\* Lines 146-161: the rows are sorted on the primary columns.
Sort ==
    /\ pc = "Mapped"
    /\ out' = SortTable(out)
    /\ pc' = "Sorted"
    /\ UNCHANGED <<df, missing, error>>
    /\ UNCHANGED uploadVars
    /\ UNCHANGED unitVars

\* A deduplication that does not wait for the sort.
DeduplicateUnsorted ==
    /\ pc \in {"Mapped", "Sorted"}
    /\ out' = DropDuplicates(out)
    /\ pc' = "Deduplicated"
    /\ UNCHANGED <<df, missing, error>>
    /\ UNCHANGED uploadVars
    /\ UNCHANGED unitVars

\* Lines 163-164: duplicates on the primary columns are dropped, the first kept.
Deduplicate ==
    /\ pc = "Sorted"
    /\ out' = DropDuplicates(out)
    /\ pc' = "Deduplicated"
    /\ UNCHANGED <<df, missing, error>>
    /\ UNCHANGED uploadVars
    /\ UNCHANGED unitVars

\* Lines 166-176: the columns are put in target order, the index reset, out returned.
Finalize ==
    /\ pc = "Deduplicated"
    /\ out' = FinalizeTable(out)
    /\ pc' = "Finalized"
    /\ UNCHANGED <<df, missing, error>>
    /\ UNCHANGED uploadVars
    /\ UNCHANGED unitVars

-----------------------------------------------------------------------------
(* convert.py: process_upload *)

\* The keys of the dict sheets.
SheetKeys(sheets) == {sheets[i].name : i \in DOMAIN sheets}

\* Lines 206-213: the workbook is read; a requested sheet that is no key of it raises
\* ValueError, a requested sheet that is one becomes the only sheet; "if sheet_name"
\* is false for None and for the empty string.
SelectSheet ==
    /\ upc = "start"
    /\ IF Truthy(sheet_name)
       THEN IF sheet_name.s \notin SheetKeys(workbook)
            THEN /\ upc' = "raised"
                 /\ error' = "SheetNotFound"
                 /\ UNCHANGED selected
            ELSE /\ upc' = "loop"
                 /\ selected' = SelectSeq(workbook, LAMBDA sh : sh.name = sheet_name.s)
                 /\ UNCHANGED error
       ELSE /\ upc' = "loop"
            /\ selected' = workbook
            /\ UNCHANGED error
    /\ UNCHANGED <<df, pc, missing, out, workbook, sheet_name, transformed, result>>
    /\ UNCHANGED unitVars

\* Line 220: transform_to_nwp is called on the next sheet.
CallTransform ==
    /\ upc = "loop"
    /\ selected /= <<>>
    /\ df' = Head(selected).table
    /\ pc' = "Unvalidated"
    /\ missing' = <<>>
    /\ out' = EmptyTable
    /\ upc' = "transform"
    /\ UNCHANGED <<error, workbook, sheet_name, selected, transformed, result>>
    /\ UNCHANGED unitVars

\* Line 224: the table returned is stored under the sheet's name.
StoreSheet ==
    /\ upc = "transform"
    /\ pc = "Finalized"
    /\ transformed' = Append(transformed, [name |-> Head(selected).name, table |-> out])
    /\ selected' = Tail(selected)
    /\ pc' = "idle"
    /\ upc' = "loop"
    /\ UNCHANGED <<df, missing, out, error, workbook, sheet_name, result>>
    /\ UNCHANGED unitVars

\* Lines 221-223: the ValueError of transform_to_nwp is raised again, any other
\* exception is not caught; process_upload ends without a return value.
Reraise ==
    /\ upc = "transform"
    /\ pc = "Error"
    /\ upc' = "raised"
    /\ UNCHANGED <<df, pc, missing, out, error, workbook, sheet_name, selected,
                   transformed, result>>
    /\ UNCHANGED unitVars

\* Lines 226-240: the output is serialised, as CSV for one sheet and as a zip of
\* CSV files otherwise, and the dict is returned.
ReturnResult ==
    /\ upc = "loop"
    /\ selected = <<>>
    /\ result' = [kind |-> "dict",
                  sheets |-> transformed,
                  warnings |-> <<>>,
                  output |-> [format |-> IF Len(transformed) = 1 THEN "csv" ELSE "zip",
                              files |-> [k \in DOMAIN transformed |-> transformed[k].name]]]
    /\ upc' = "returned"
    /\ UNCHANGED <<df, pc, missing, out, error, workbook, sheet_name, selected,
                   transformed>>
    /\ UNCHANGED unitVars

-----------------------------------------------------------------------------
(* utils.py: _parse_address_field called on one address *)

\* The call returns the pair or raises.
ParseAddress ==
    /\ parsed = NoResult
    /\ LET r == _parse_address_field(addr_in)
       IN  parsed' = [kind |-> IF r[1] = OverflowError THEN "raised" ELSE "pair",
                      number |-> r[1],
                      street |-> r[2]]
    /\ UNCHANGED addr_in
    /\ UNCHANGED <<transformVars, uploadVars, phoneVars, titleVars, lookupVars>>

-----------------------------------------------------------------------------
(* utils.py: _format_phone_to_north_american called on one value, and again on its
   result *)

FormatPhone ==
    /\ formatted = NoResult
    /\ formatted' = _format_phone_to_north_american(phone_in)
    /\ UNCHANGED <<phone_in, reformatted>>
    /\ UNCHANGED <<transformVars, uploadVars, addressVars, titleVars, lookupVars>>

FormatPhoneAgain ==
    /\ formatted /= NoResult
    /\ reformatted = NoResult
    /\ reformatted' = _format_phone_to_north_american(formatted)
    /\ UNCHANGED <<phone_in, formatted>>
    /\ UNCHANGED <<transformVars, uploadVars, addressVars, titleVars, lookupVars>>

-----------------------------------------------------------------------------
(* utils.py: _title_case_safe called on one value, and again on its result *)

TitleCase ==
    /\ titled = NoResult
    /\ titled' = _title_case_safe(title_in)
    /\ UNCHANGED <<title_in, retitled>>
    /\ UNCHANGED <<transformVars, uploadVars, addressVars, phoneVars, lookupVars>>

TitleCaseAgain ==
    /\ titled /= NoResult
    /\ retitled = NoResult
    /\ retitled' = _title_case_safe(titled)
    /\ UNCHANGED <<title_in, titled>>
    /\ UNCHANGED <<transformVars, uploadVars, addressVars, phoneVars, lookupVars>>

-----------------------------------------------------------------------------
(* utils.py: _get_col called on one table for a logical name, and for a second one *)

GetCol ==
    /\ found = NoResult
    /\ found' = _get_col([columns |-> lookup_columns], lookup_name)
    /\ UNCHANGED <<lookup_columns, lookup_name, lookup_other, found_other>>
    /\ UNCHANGED <<transformVars, uploadVars, addressVars, phoneVars, titleVars>>

GetColOther ==
    /\ found_other = NoResult
    /\ found_other' = _get_col([columns |-> lookup_columns], lookup_other)
    /\ UNCHANGED <<lookup_columns, lookup_name, lookup_other, found>>
    /\ UNCHANGED <<transformVars, uploadVars, addressVars, phoneVars, titleVars>>

-----------------------------------------------------------------------------
(* Specifications *)


\* The functions that are not called.
Unused == [kind |-> "unused"]

TransformIdle ==
    /\ df = EmptyTable
    /\ pc = "idle"
    /\ missing = <<>>
    /\ out = EmptyTable
    /\ error = "none"

UploadIdle ==
    /\ workbook = <<>>
    /\ sheet_name = None
    /\ upc = "none"
    /\ selected = <<>>
    /\ transformed = <<>>
    /\ result = NoResult

AddressIdle ==
    /\ addr_in = None
    /\ parsed = Unused

PhoneIdle ==
    /\ phone_in = None
    /\ formatted = Unused
    /\ reformatted = Unused

TitleIdle ==
    /\ title_in = None
    /\ titled = Unused
    /\ retitled = Unused

LookupIdle ==
    /\ lookup_columns = <<>>
    /\ lookup_name = None
    /\ lookup_other = None
    /\ found = Unused
    /\ found_other = Unused

\* transform_to_nwp called on one of the given source tables.
TransformInit(tables) ==
    /\ df \in tables
    /\ pc = "Unvalidated"
    /\ missing = <<>>
    /\ out = EmptyTable
    /\ error = "none"
    /\ UploadIdle
    /\ AddressIdle
    /\ PhoneIdle
    /\ TitleIdle
    /\ LookupIdle

Init == TransformInit(SourceTables)

Next == Validate \/ Map \/ Sort \/ Deduplicate \/ Finalize

Spec == Init /\ [][Next]_vars

\* transform_to_nwp called on one source table of at most MaxLiveRows rows; the
\* function runs to its return or to its exception, it does not stop in between.
LiveInit == TransformInit(TablesUpTo(MaxLiveRows))

LiveSpec == LiveInit /\ [][Next]_vars /\ WF_vars(Next)

\* process_upload called on one workbook with one sheet_name argument.
UploadInit ==
    /\ workbook \in Workbooks
    /\ sheet_name \in SheetNameArguments
    /\ upc = "start"
    /\ selected = <<>>
    /\ transformed = <<>>
    /\ result = NoResult
    /\ TransformIdle
    /\ AddressIdle
    /\ PhoneIdle
    /\ TitleIdle
    /\ LookupIdle

UploadNext ==
    \/ SelectSheet
    \/ CallTransform
    \/ Validate
    \/ Map
    \/ Sort
    \/ Deduplicate
    \/ Finalize
    \/ StoreSheet
    \/ Reraise
    \/ ReturnResult

SpecUpload == UploadInit /\ [][UploadNext]_vars

\* _parse_address_field called on one address.
AddressInit ==
    /\ addr_in \in AddrArguments
    /\ parsed = NoResult
    /\ TransformIdle
    /\ UploadIdle
    /\ PhoneIdle
    /\ TitleIdle
    /\ LookupIdle

SpecAddress == AddressInit /\ [][ParseAddress]_vars

\* _format_phone_to_north_american called on one value and then on its result.
PhoneInit ==
    /\ phone_in \in PhoneArguments
    /\ formatted = NoResult
    /\ reformatted = NoResult
    /\ TransformIdle
    /\ UploadIdle
    /\ AddressIdle
    /\ TitleIdle
    /\ LookupIdle

SpecPhone == PhoneInit /\ [][FormatPhone \/ FormatPhoneAgain]_vars


\* _title_case_safe called on one value and then on its result.
TitleInit ==
    /\ title_in \in TitleArguments
    /\ titled = NoResult
    /\ retitled = NoResult
    /\ TransformIdle
    /\ UploadIdle
    /\ AddressIdle
    /\ PhoneIdle
    /\ LookupIdle

SpecTitle == TitleInit /\ [][TitleCase \/ TitleCaseAgain]_vars

\* _get_col called on one table for two logical names.
LookupInit ==
    /\ lookup_columns \in LookupHeaders
    /\ lookup_name \in LookupNames
    /\ lookup_other \in LookupNames
    /\ found = NoResult
    /\ found_other = NoResult
    /\ TransformIdle
    /\ UploadIdle
    /\ AddressIdle
    /\ PhoneIdle
    /\ TitleIdle

SpecLookup == LookupInit /\ [][GetCol \/ GetColOther]_vars
-----------------------------------------------------------------------------
(* Properties of transform_to_nwp *)

\* The text a primary column is compared by: the empty string for a missing value.
FieldText(v) == IF IsNA(v) THEN <<>> ELSE PyStr(v)

\* Two rows have the same (Street, Number, ApartmentNumber, Suburb, State), two
\* missing values counting as equal.
SameTuple(r1, r2) ==
    \A i \in DOMAIN primary_cols :
        LET a == r1[primary_cols[i]]
            b == r2[primary_cols[i]]
        IN  (IsNA(a) /\ IsNA(b)) \/ a = b

\* Row r1 is not after row r2 in the lexicographic order of the five texts.
TupleLeq(r1, r2) ==
    \/ \A i \in DOMAIN primary_cols :
           FieldText(r1[primary_cols[i]]) = FieldText(r2[primary_cols[i]])
    \/ \E i \in DOMAIN primary_cols :
           /\ \A j \in 1..(i - 1) :
                  FieldText(r1[primary_cols[j]]) = FieldText(r2[primary_cols[j]])
           /\ StrLess(FieldText(r1[primary_cols[i]]), FieldText(r2[primary_cols[i]]))

\* C1: the table returned by transform_to_nwp holds no two rows with the same
\* (Street, Number, ApartmentNumber, Suburb, State), missing values counting as equal.
C1_NoDuplicateTuples ==
    pc = "Finalized" =>
        \A i, j \in DOMAIN out.rows : i < j => ~SameTuple(out.rows[i], out.rows[j])

\* A returned table of at least two rows from which duplicates were dropped.
C1_Witness ==
    /\ pc = "Finalized"
    /\ Len(out.rows) >= 2
    /\ Len(out.rows) < Len(df.rows)

\* C2: the returned rows are in non-decreasing order of the five primary columns,
\* compared as texts field by field, a missing value as the empty string.
C2_RowsSorted ==
    pc = "Finalized" =>
        \A k \in 1..(Len(out.rows) - 1) : TupleLeq(out.rows[k], out.rows[k + 1])

\* A returned table of three rows, none dropped, in another order than in the
\* source, with a missing value in a primary column.
C2_Witness ==
    /\ pc = "Finalized"
    /\ Len(out.rows) = 3
    /\ Len(df.rows) = 3
    /\ out.rows /= MapTable(df).rows
    /\ \E k \in DOMAIN out.rows : IsNA(out.rows[k]["ApartmentNumber"])

\* C3: a row whose primary column is missing comes after every row where that
\* column has a value, the earlier primary columns being equal (missing sorts last).
C3_AbsentSortsLast ==
    pc = "Finalized" =>
        \A i, j \in DOMAIN out.rows : \A f \in DOMAIN primary_cols :
            ( /\ i < j
              /\ \A g \in 1..(f - 1) :
                     FieldText(out.rows[i][primary_cols[g]])
                         = FieldText(out.rows[j][primary_cols[g]])
              /\ IsNA(out.rows[i][primary_cols[f]]) )
            => IsNA(out.rows[j][primary_cols[f]])

\* The required names no column of table t normalises to, as positions of
\* REQUIRED_ORIGINAL_COLUMNS.
AbsentRequiredIn(t) ==
    LET have == {_norm_col_name(t.columns[i]) : i \in DOMAIN t.columns}
    IN  {i \in DOMAIN REQUIRED_ORIGINAL_COLUMNS :
            _norm_col_name(StrV(REQUIRED_ORIGINAL_COLUMNS[i])) \notin have}

AbsentRequired == AbsentRequiredIn(df)

\* C4: transform_to_nwp ends in the missing-columns error exactly when a required
\* name has no column with the same normalised name; the error lists these names,
\* each once, in the order of the required list, and no target table is produced.
C4_MissingColumnsError ==
    pc \in {"Error", "Finalized"} =>
        /\ (pc = "Error") <=> (AbsentRequired /= {})
        /\ pc = "Error" =>
              /\ error = "MissingColumns"
              /\ missing = SelectPositions(REQUIRED_ORIGINAL_COLUMNS, AbsentRequired, 1)
              /\ out = EmptyTable
        /\ pc = "Finalized" => error = "none" /\ missing = <<>>

\* The error raised for a table that lacks two required columns.
C4_Witness ==
    /\ pc = "Error"
    /\ Len(missing) = 2
    /\ Len(REQUIRED_ORIGINAL_COLUMNS) = 24

\* The steps between the stages of one transformation.
StageOrder ==
    {<<"Unvalidated", "Validated">>, <<"Unvalidated", "Error">>,
     <<"Validated", "Mapped">>, <<"Mapped", "Sorted">>,
     <<"Sorted", "Deduplicated">>, <<"Deduplicated", "Finalized">>}

\* One step of the transformation moves it to the next stage.
StageStep == <<pc, pc'>> \in StageOrder

C6_FirstOccurrenceKept ==
    pc = "Finalized" =>
        LET mapped == MapTable(df).rows
        IN  /\ \A k \in DOMAIN out.rows : \E i \in DOMAIN mapped :
                   /\ mapped[i] = out.rows[k]
                   /\ \A j \in 1..(i - 1) : ~SameTuple(mapped[j], mapped[i])
            /\ \A i \in DOMAIN mapped :
                   Cardinality({k \in DOMAIN out.rows :
                                   SameTuple(out.rows[k], mapped[i])}) = 1

\* Two source rows with the same tuple and different names, the first one returned.
C6_Witness ==
    /\ pc = "Finalized"
    /\ LET mapped == MapTable(df).rows
       IN  \E i, j \in DOMAIN mapped :
               /\ i < j
               /\ SameTuple(mapped[i], mapped[j])
               /\ mapped[i]["Name"] /= mapped[j]["Name"]
               /\ \E k \in DOMAIN out.rows : out.rows[k] = mapped[i]

\* The target columns that the transformation leaves to the destination.
ReservedColumns ==
    {"TerritoryID", "TerritoryNumber", "CategoryCode", "Category", "TerritoryAddressID",
     "Type", "Status", "NotHomeAttempt", "Date1", "Date2", "Date3", "Date4", "Date5",
     "NotesFromPublisher"}

\* C7: a returned table has exactly the target columns in the canonical order, and
\* the reserved columns are present and missing-valued in every row.
C7_CanonicalColumns ==
    pc = "Finalized" =>
        /\ out.columns = TARGET_COLUMNS
        /\ \A k \in DOMAIN out.rows :
               /\ DOMAIN out.rows[k] = Range(TARGET_COLUMNS)
               /\ \A c \in ReservedColumns :
                      c \in DOMAIN out.rows[k] /\ IsNA(out.rows[k][c])

\* A table returned for a source with reordered columns, columns named Status, Type
\* and Territory_ID that hold values, and a column that is no part of the export.
C7_Witness ==
    /\ pc = "Finalized"
    /\ df.columns = VariantHeader
    /\ Len(out.rows) >= 1
    /\ \E c \in Range(df.columns) :
           _norm_col_name(c) = <<"t", "y", "p", "e">> /\ ~IsNA(df.rows[1][c])

\* C8 as stated: the target schema has 25 entries, all distinct, and a returned
\* record has exactly 25 fields.
C8_TwentyFiveFields ==
    pc = "Finalized" =>
        /\ Len(TARGET_COLUMNS) = 25
        /\ Cardinality(Range(TARGET_COLUMNS)) = 25
        /\ Len(out.columns) = 25
        /\ \A k \in DOMAIN out.rows : Cardinality(DOMAIN out.rows[k]) = 25

\* C8 amended: the target schema has 26 entries, all distinct, and every returned
\* record has exactly these 26 fields.
C8_TwentySixFields ==
    pc = "Finalized" =>
        /\ Len(TARGET_COLUMNS) = 26
        /\ Cardinality(Range(TARGET_COLUMNS)) = 26
        /\ Len(out.columns) = 26
        /\ \A k \in DOMAIN out.rows : Cardinality(DOMAIN out.rows[k]) = 26

\* A returned table with a record in it.
C8_Witness ==
    /\ pc = "Finalized"
    /\ Len(out.rows) = 1
    /\ Cardinality(DOMAIN out.rows[1]) = Len(TARGET_COLUMNS)


-----------------------------------------------------------------------------
(* Properties of process_upload *)

\* A sheet name is requested and the workbook has no sheet of that name.
RequestedSheetAbsent ==
    /\ sheet_name /= None
    /\ \A k \in DOMAIN workbook : workbook[k].name /= sheet_name.s

\* The sheets the call is about: the requested one, every sheet without a request.
RequestedSheets ==
    IF sheet_name = None
    THEN workbook
    ELSE SelectSeq(workbook, LAMBDA sh : sh.name = sheet_name.s)

\* The call has to fail: the requested sheet is absent or a sheet it is about lacks
\* a required column.
UploadMustFail ==
    \/ RequestedSheetAbsent
    \/ \E k \in DOMAIN RequestedSheets : AbsentRequiredIn(RequestedSheets[k].table) /= {}

\* C9: process_upload ends in an error with nothing returned when the requested
\* sheet is absent or a selected sheet lacks a required column, and returns one
\* transformed table per selected sheet otherwise; an absent requested sheet is
\* reported as such, other sheets are never processed in its place.
C9_UploadAllOrNothing ==
    upc \in {"raised", "returned"} =>
        /\ UploadMustFail => upc = "raised" /\ result = NoResult
        /\ ~UploadMustFail =>
               /\ upc = "returned"
               /\ result.kind = "dict"
               /\ DOMAIN result.sheets = DOMAIN RequestedSheets
               /\ \A k \in DOMAIN result.sheets :
                      /\ result.sheets[k].name = RequestedSheets[k].name
                      /\ result.sheets[k].table.columns = TARGET_COLUMNS
        /\ RequestedSheetAbsent => error = "SheetNotFound" /\ transformed = <<>>

-----------------------------------------------------------------------------
(* Properties of _parse_address_field *)

\* The digits of n without the leading zeros, one digit at least.
WithoutLeadingZeros(n) ==
    LET firstKept == CHOOSE i \in DOMAIN n :
                         /\ i = Len(n) \/ n[i] /= "0"
                         /\ \A j \in 1..(i - 1) : n[j] = "0"
    IN  SubSeq(n, firstKept, Len(n))

\* The address s is N, whitespace, STREET with N the first n characters, all of them
\* digits, and STREET starting at position b.
AddressForm(s, n, b) ==
    /\ 1 <= n /\ n + 1 < b /\ b <= Len(s)
    /\ \A i \in 1..n : s[i] \in Digits
    /\ \A i \in (n + 1)..(b - 1) : s[i] \in Whitespace
    /\ s[b] \notin Whitespace

\* C10: for an address N, whitespace, STREET the number returned is N without its
\* leading zeros, the street is STREET without the whitespace around it and without
\* the periods at its end, and it ends with no period and no whitespace.
C10_NumberAndStreet ==
    (parsed /= NoResult /\ addr_in.t = "str") =>
        \A n, b \in DOMAIN addr_in.s :
            AddressForm(addr_in.s, n, b) =>
                /\ parsed.number = StrV(WithoutLeadingZeros(SubSeq(addr_in.s, 1, n)))
                /\ parsed.street.t = "str"
                /\ \E e \in (b - 1)..Len(addr_in.s) :
                       /\ parsed.street.s = SubSeq(addr_in.s, b, e)
                       /\ \A i \in (e + 1)..Len(addr_in.s) :
                              addr_in.s[i] \in Whitespace \cup {"."}
                /\ parsed.street.s /= <<>> =>
                       parsed.street.s[Len(parsed.street.s)] \notin Whitespace \cup {"."}

\* The trimmed address s begins with a digit-led token of [A-Za-z0-9/-] that is
\* followed by whitespace.
TokenLed(s) ==
    /\ s /= <<>>
    /\ s[1] \in Digits
    /\ \E n \in 1..(Len(s) - 1) :
           /\ \A i \in 1..n : s[i] \in Digits \cup Upper \cup Lower \cup {"-", "/"}
           /\ s[n + 1] \in Whitespace

\* s is only a number with ".0" behind it, as in "142.0".
NumberDotZero(s) ==
    /\ Len(s) >= 3
    /\ SubSeq(s, Len(s) - 1, Len(s)) = <<".", "0">>
    /\ \A i \in 1..(Len(s) - 2) : s[i] \in Digits

\* C11: _parse_address_field returns a pair for every address: (absent, absent) for
\* an absent or NaN address, (absent, "") for the empty string, and for every other
\* address whose trimmed text does not begin with a digit-led token followed by
\* whitespace number absent and street the trimmed text without trailing periods,
\* "142.0" giving the street "142".
C11_NeverFails ==
    parsed /= NoResult =>
        /\ parsed.kind = "pair"
        /\ IsNA(addr_in) => parsed.number = None /\ parsed.street = None
        /\ addr_in = StrV(<<>>) => parsed.number = None /\ parsed.street = StrV(<<>>)
        /\ (addr_in.t = "str" /\ ~TokenLed(Strip(addr_in.s))) =>
               /\ parsed.number = None
               /\ parsed.street =
                      IF NumberDotZero(Strip(addr_in.s))
                      THEN StrV(SubSeq(Strip(addr_in.s), 1, Len(Strip(addr_in.s)) - 2))
                      ELSE StrV(RStripDots(Strip(addr_in.s)))

-----------------------------------------------------------------------------
(* Properties of _format_phone_to_north_american *)

\* The digit characters of the text s, in order.
DigitsOf(s) == SelectSeq(s, LAMBDA ch : ch \in Digits)

\* The lengths of the maximal runs of digits of s from position i on, cur digits of
\* the current run being read already.
RECURSIVE DigitRunsFrom(_, _, _)
DigitRunsFrom(s, i, cur) ==
    IF i > Len(s) THEN (IF cur > 0 THEN <<cur>> ELSE <<>>)
    ELSE IF s[i] \in Digits THEN DigitRunsFrom(s, i + 1, cur + 1)
    ELSE (IF cur > 0 THEN <<cur>> ELSE <<>>) \o DigitRunsFrom(s, i + 1, 0)

\* The value v is a text whose digits are d, grouped 3-3-4.
GroupedDigits(v, d) ==
    /\ v.t = "str"
    /\ DigitsOf(v.s) = d
    /\ DigitRunsFrom(v.s, 1, 0) = <<3, 3, 4>>

StartsWithPlus(s) == s /= <<>> /\ s[1] = "+"

PhoneTextOf(v) == IF v.t = "str" THEN Strip(v.s) ELSE v.s

\* "+1 (AAA) PPP-SSSS" for the ten digits d.
CountryCodeFormat(d) ==
    <<"+", "1", " ", "(", d[1], d[2], d[3], ")", " ", d[4], d[5], d[6], "-",
      d[7], d[8], d[9], d[10]>>

\* C13: a number of 10 digits, and one of 11 digits with a leading 1, is formatted
\* as "+1 (AAA) PPP-SSSS"; an input that starts with "+" is returned unchanged, one
\* with another digit count as its trimmed text; an empty, absent or NaN input
\* gives absent.
C13_CountryCodeFormat ==
    formatted /= NoResult =>
        IF IsNA(phone_in) \/ PhoneTextOf(phone_in) = <<>> THEN formatted = None
        ELSE LET text == PhoneTextOf(phone_in)
                 d == DigitsOf(text)
             IN  IF StartsWithPlus(text) THEN formatted = StrV(text)
                 ELSE IF Len(d) = 10 THEN formatted = StrV(CountryCodeFormat(d))
                 ELSE IF Len(d) = 11 /\ d[1] = "1"
                      THEN formatted = StrV(CountryCodeFormat(Tail(d)))
                 ELSE formatted = StrV(text)

\* C14: _format_phone_to_north_american applied to its own result returns that
\* result, for the inputs formatted as a number of ten digits and for every other.
C14_Idempotent ==
    reformatted /= NoResult => reformatted = formatted

\* A whole number formatted as a number of ten digits, and formatted again.
C14_Witness ==
    /\ reformatted /= NoResult
    /\ phone_in.t \in {"int", "float"}
    /\ GroupedDigits(formatted, TenDigits)
    /\ reformatted.t = "str"

-----------------------------------------------------------------------------
(* C15: _title_case_safe is idempotent: for every string over letters, digits,
   whitespace, apostrophe, hyphen and slash, applying it to its own result gives
   that result again, also with a possessive 's, with an apostrophe followed by
   another segment and with fully uppercase segments. *)
C15_Idempotent == retitled /= NoResult => retitled = titled

-----------------------------------------------------------------------------
\* The whitespace layout of s: its whitespace characters in order, each maximal run
\* of other characters written as one "x".
RECURSIVE LayoutFrom(_, _)
LayoutFrom(s, i) ==
    IF i > Len(s) THEN <<>>
    ELSE IF s[i] \in Whitespace THEN <<s[i]>> \o LayoutFrom(s, i + 1)
    ELSE IF i > 1 /\ s[i - 1] \notin Whitespace THEN LayoutFrom(s, i + 1)
    ELSE <<"x">> \o LayoutFrom(s, i + 1)

WhitespaceLayout(s) == Let(s, LAMBDA v : LayoutFrom(v, 1))

\* r has the whitespace layout of s and differs from s in letter case only.
SameButCase(r, s) ==
    /\ r.t = "str"
    /\ WhitespaceLayout(r.s) = WhitespaceLayout(s)
    /\ StrUpper(r.s) = StrUpper(s)

(* C16 as stated: for every string s, _title_case_safe returns a string with the
   whitespace layout of s, leading and trailing runs included, that differs from s
   only in the letter case of characters. *)
C16_SameLayout ==
    (titled /= NoResult /\ title_in.t = "str") => SameButCase(titled, title_in.s)

(* C16: for every string s, _title_case_safe returns a string with the whitespace
   layout of s without its leading and trailing whitespace: every whitespace run
   between two tokens appears unchanged and in the same position, and the result
   differs from the trimmed s only in the letter case of characters. *)
C16_TrimmedLayout ==
    (titled /= NoResult /\ title_in.t = "str") => SameButCase(titled, Strip(title_in.s))

\* A text with leading or trailing whitespace and a whitespace run of two characters
\* inside has been given a result that changed the case of a letter.
C16_Witness ==
    /\ titled /= NoResult
    /\ title_in.t = "str"
    /\ Strip(title_in.s) /= title_in.s
    /\ \E i \in 1..Len(titled.s) : titled.s[i] \in Whitespace
    /\ titled.s /= Strip(title_in.s)

-----------------------------------------------------------------------------
\* The normalised form of a name: whitespace and underscores removed, lowercased, a
\* null name read as "none".
NormalForm(v) ==
    Let(IF v = None THEN <<"n", "o", "n", "e">> ELSE PyStr(v),
        LAMBDA s : StrLower(Remove(s, Whitespace \cup {"_"})))

\* The columns of the table with the normalised form of the name.
ColumnsLike(name) ==
    {i \in DOMAIN lookup_columns : NormalForm(lookup_columns[i]) = NormalForm(name)}

\* The result r of looking up name is not-found, or a column of the table with the
\* normalised form of name, and it is not-found only when there is no such column.
Resolves(r, name) ==
    /\ r /= None => \E i \in ColumnsLike(name) : lookup_columns[i] = r
    /\ r = None => ColumnsLike(name) = {}

(* C17: for every table and logical name, _get_col returns either not-found or a
   column name present in the table whose normalised form equals the normalised
   logical name; it returns not-found only when no column of the table has that
   normalised form; two logical names with the same normalised form resolve to
   the same column, also when several columns have that normalised form. *)
C17_ResolvesByNormalForm ==
    /\ found /= NoResult => Resolves(found, lookup_name)
    /\ found_other /= NoResult => Resolves(found_other, lookup_other)
    /\ (found /= NoResult /\ found_other /= NoResult
        /\ NormalForm(lookup_name) = NormalForm(lookup_other)) => found = found_other
=============================================================================
